---- MODULE Spec2Model ----
(***************************************************************************)
(* gotree: a tree of nodes kept in two sharded indexes (node index,        *)
(* ancestor-chain index), pooled treeNode records with a child collection  *)
(* each, a live counter and a root reference.                              *)
(*                                                                         *)
(* Spec is the sequential specification: every public operation of Tree is *)
(* one atomic step, and the variable call records the call just made and   *)
(* what it returned.  SpecMutators keeps the operations that change the    *)
(* tree, SpecAncestors adds Ancestors to them, SpecLists is Add, Delete,   *)
(* Ancestors and Descendants, SpecQueries is Add and every query.          *)
(* SpecReuse is Add and Delete alone with more Add calls, enough for the   *)
(* pool to hand a record out again.  SpecThreads is Add called from        *)
(* several goroutines, one step per access to shared state; SpecRace has   *)
(* Delete and Ancestors called from goroutines as well, on a tree built    *)
(* beforehand; SpecSteps is one goroutine that steps through Add between   *)
(* whole Add and Delete calls.                                             *)
(*                                                                         *)
(* SpecMap is a ShardedMap taken by itself, shard by shard, with Load,     *)
(* Store, Delete, Reset and Range called one after the other; SpecShards   *)
(* has them called from several goroutines, one step per lock operation    *)
(* and per access to a shard's map.                                        *)
(*                                                                         *)
(* Slice, the child collection, is not among the sources: its operations   *)
(* are modelled from the specification (an ordered collection, Items a     *)
(* snapshot, Delete by index).                                             *)
(***************************************************************************)
EXTENDS Integers, Sequences, FiniteSets, TLC

\* ------------------------------------------------------------ bounds
\* identifiers are 1..MaxKey, ordered as Go orders the ID strings
MaxKey == 3
\* Add calls that may succeed in one behaviour of Spec
MaxAdds == 3
\* width of Go's uint and int in the model (64 in the build)
IntBits == 8
\* goroutines that call into the tree at the same time
MaxThreads == 2
\* shards of a ShardedMap (64 in the build)
numShards == 2

Keys == 1..MaxKey
Threads == 1..MaxThreads
\* the specification of record reuse has three Add calls more: a node with two
\* children under the root, and two nodes added after they were deleted
ReuseAdds == MaxAdds + 3
\* the level arguments tried: every index a chain can have and the first one
\* past the longest chain (a chain is shorter than MaxAdds), and the two ends
\* of the upper half of uint
Levels == (0..(MaxAdds - 1)) \cup {2^(IntBits - 1), 2^IntBits - 1}

\* a nil *treeNode, and the zero ID of a record the pool has just made
NULL == 0
NoKey == 0
\* a nil Node[T]
NilNode == [id |-> 0, v |-> 0]
\* a caller's Node[T]: ID() and Value()
NodeOf(k, v) == [id |-> k, v |-> v]
\* a nil parent argument
NoParent == 0

VARIABLES
    nodes,      \* Tree.nodes: identifier -> treeNode record
    parents,    \* Tree.parents: identifier -> ancestor chain, nearest first
    recs,       \* the treeNode records: ID, Value, Descendants
    nalloc,     \* how many records nodesPool.New has made
    pool,       \* nodesPool: how many times each record is in the pool
    size,       \* Tree.size
    rootNode,   \* Tree.rootNode
    call,       \* the last call and its result
    addsOk,     \* Add calls that returned nil (since the last Reset)
    removed,    \* nodes the successful Delete calls had to remove
    dupAdded,   \* an Add has succeeded for an identifier already in the index
    thr,        \* the goroutines that have called into the tree: where each
                \* one is in its call, and its locals
    shards      \* a ShardedMap taken by itself: its shards, each one a lock
                \* and a map

vars == <<nodes, parents, recs, nalloc, pool, size, rootNode, call, addsOk,
          removed, dupAdded, thr, shards>>
tree == <<nodes, parents, recs, nalloc, pool, size, rootNode>>

\* ------------------------------------------------------------ errors
ErrParentNodeNotFound == "ErrParentNodeNotFound"
ErrNotFound_wrong == "ErrParentNodeNotFound"
ErrNotFound == "ErrNotFound"
ErrInvalidOperation == "ErrInvalidOperation"

\* ------------------------------------------------------------ ShardedMap
EmptyMap == [x \in {} |-> 0]
MapLoad(m, key) == IF key \in DOMAIN m THEN <<m[key], TRUE>> ELSE <<NULL, FALSE>>
MapStore(m, key, value) ==
    [x \in (DOMAIN m) \cup {key} |-> IF x = key THEN value ELSE m[x]]
MapDelete(m, key) == [x \in (DOMAIN m) \ {key} |-> m[x]]

\* ------------------------------------------------------------ ShardedMap, shard by shard
\* the values stored
Values == 1..2
\* the bytes of a key: the identifier k is the string of the digit k
KeyBytes(k) == <<48 + k>>

\* bitwise exclusive or
RECURSIVE Xor(_, _)
Xor(a, b) ==
    IF a = 0 THEN b
    ELSE IF b = 0 THEN a
    ELSE ((a + b) % 2) + 2 * Xor(a \div 2, b \div 2)

\* hash/fnv New64 is FNV-1: for every byte, multiply by the prime, then xor
\* the byte.  The low IntBits bits of the 64-bit hash are computed exactly by
\* the arithmetic modulo 2^IntBits on the low bits of the offset basis
\* 0xcbf29ce484222325 and of the prime 0x100000001b3 (IntBits <= 16).
FnvOffset == 8997 % (2^IntBits)
FnvPrime == 435 % (2^IntBits)
RECURSIVE fnvWrite(_, _)
fnvWrite(hash, bytes) ==
    IF bytes = << >> THEN hash
    ELSE fnvWrite(Xor((hash * FnvPrime) % (2^IntBits), Head(bytes)), Tail(bytes))
fnv64(key) == fnvWrite(FnvOffset, KeyBytes(key))

\* a Shard: the map, and the state of its RWMutex
NewShard == [m |-> EmptyMap, readers |-> 0, writer |-> FALSE]
NewShardedMap(shardsCount) == [i \in 1..shardsCount |-> NewShard]

\* the shard of a key, as an index from 1
getShard_bySum(sm, key) == ((KeyBytes(key)[1] \div 2) % Len(sm)) + 1
getShard(sm, key) == (fnv64(key) % Len(sm)) + 1

\* sync.RWMutex: Lock waits until nobody holds the lock, RLock until no
\* writer holds it
CanLock(sm, i) == ~sm[i].writer /\ sm[i].readers = 0
CanRLock(sm, i) == ~sm[i].writer
Lock(sm, i) == [sm EXCEPT ![i].writer = TRUE]
Unlock(sm, i) == [sm EXCEPT ![i].writer = FALSE]
RLock(sm, i) == [sm EXCEPT ![i].readers = @ + 1]
RUnlock(sm, i) == [sm EXCEPT ![i].readers = @ - 1]

\* the statement each operation executes while it holds the lock
shardRead(sm, i, key) == MapLoad(sm[i].m, key)
shardWrite(sm, i, key, value) == [sm EXCEPT ![i].m = MapStore(@, key, value)]
shardDelete(sm, i, key) == [sm EXCEPT ![i].m = MapDelete(@, key)]
shardMake(sm, i) == [sm EXCEPT ![i].m = EmptyMap]

\* the operations as a whole, with no other goroutine in the map
ShardedLoad(sm, key) == shardRead(RLock(sm, getShard(sm, key)), getShard(sm, key), key)
ShardedStore_bySum(sm, key, value) ==
    LET i == getShard_bySum(sm, key)
    IN  Unlock(shardWrite(Lock(sm, i), i, key, value), i)
ShardedStore(sm, key, value) ==
    LET i == getShard(sm, key)
    IN  Unlock(shardWrite(Lock(sm, i), i, key, value), i)
ShardedDelete(sm, key) ==
    LET i == getShard(sm, key)
    IN  Unlock(shardDelete(Lock(sm, i), i, key), i)
RECURSIVE resetFrom(_, _)
resetFrom(sm, i) ==
    IF i > Len(sm) THEN sm ELSE resetFrom(Unlock(shardMake(Lock(sm, i), i), i), i + 1)
ShardedReset(sm) == resetFrom(sm, 1)

\* a call of the visitor: the entry Range hands it, and what it returns
Visit(k, v, b) == [key |-> k, value |-> v, ret |-> b]
\* Range goes on to the next entry whatever the visitor returned
rangeContinues(b) == TRUE
\* the entries of the map, each with its shard
EntriesOf(sm) == {e \in (1..Len(sm)) \X Keys : e[2] \in DOMAIN sm[e[1]].m}
\* the orders in which Range can meet the entries: shard after shard, the
\* entries of one shard in any order
RangeOrdersOf(sm) ==
    LET n == Cardinality(EntriesOf(sm))
    IN  {o \in [1..n -> EntriesOf(sm)] :
            /\ \A a \in 1..n, b \in 1..n : a # b => o[a] # o[b]
            /\ \A a \in 1..n, b \in 1..n : a < b => o[a][1] <= o[b][1]}
\* the calls of the visitor, for an order and for what the visitor returns
\* at each call
rangeVisits(sm, order, rets) ==
    LET stops == {a \in 1..Len(order) : ~rangeContinues(rets[a])}
        last == IF stops = {} THEN Len(order)
                ELSE CHOOSE a \in stops : \A b \in stops : a <= b
    IN  [a \in 1..last |-> Visit(order[a][2], sm[order[a][1]].m[order[a][2]], rets[a])]

\* ------------------------------------------------------------ Slice
\* Items is a snapshot, Delete takes a 0-based index and ignores one that is
\* out of range.
SliceItems(s) == s
SliceAppend(s, item) == Append(s, item)
SliceAppendMany(s, items) == s \o items
SliceReset(s) == << >>
SliceDelete(s, index) ==
    IF index < 0 \/ index >= Len(s) THEN s
    ELSE [i \in 1..(Len(s) - 1) |-> IF i <= index THEN s[i] ELSE s[i + 1]]

\* ------------------------------------------------------------ helpers
\* the record nodesPool.New makes
NewRecord == [ID |-> NoKey, val |-> NilNode, desc |-> << >>]

getNode(id) == MapLoad(nodes, id)
getAncestors(id) ==
    IF id \in DOMAIN parents THEN <<parents[id], TRUE>> ELSE <<<< >>, FALSE>>

\* a chain is stored only for a child that has none
updateAncestors_ifAbsent(ps, parentID, childID) ==
    IF childID \in DOMAIN ps THEN ps
    ELSE IF parentID \in DOMAIN ps
    THEN MapStore(ps, childID, <<parentID>> \o ps[parentID])
    ELSE MapStore(ps, childID, <<parentID>>)

\* the chain updateAncestors stores for childID
updateAncestors(ps, parentID, childID) ==
    IF parentID \in DOMAIN ps
    THEN MapStore(ps, childID, <<parentID>> \o ps[parentID])
    ELSE MapStore(ps, childID, <<parentID>>)

\* treeNode.GetValue of record r
GetValue(rs, r) == rs[r].val

\* the result a call leaves in call
Result(op, id, arg, err, ok, list) ==
    [op |-> op, id |-> id, arg |-> arg, err |-> err, ok |-> ok, list |-> list]

\* the locals of a goroutine that enters a call
IdleThread ==
    [pc |-> "idle", op |-> "none", node |-> NilNode, parent |-> NoParent,
     parentNode |-> NULL, childNode |-> NULL, chain |-> << >>, err |-> "none",
     raced |-> FALSE, n |-> NULL, items |-> << >>, stack |-> << >>,
     ancestors |-> << >>, index |-> 0, id |-> NoKey]
\* op: the operation called; n, items, stack: Delete's node, the snapshot it
\* ranges over, and the calls of deleteChildren that have not returned;
\* id: the ID Delete has read from a record, the argument of the call it makes
\* next;
\* ancestors, index: the list Ancestors builds and its place in the chain
\* raced: when the call began, another goroutine was inside an Add under the
\* same parent and had not appended its node to the parent's children yet
\* (Add), or another goroutine was inside a call (Delete)

Init ==
    /\ thr = << >>
    /\ nodes = EmptyMap
    /\ parents = EmptyMap
    /\ recs = << >>
    /\ nalloc = 0
    /\ pool = << >>
    /\ size = 0
    /\ rootNode = NULL
    /\ call = Result("NewTree", NoKey, 0, "nil", TRUE, << >>)
    /\ addsOk = 0
    /\ removed = 0
    /\ dupAdded = FALSE
    /\ shards = NewShardedMap(numShards)

\* ------------------------------------------------------------ Add
addIsSecondRoot_never(parent) == FALSE
\* a second root is refused
addIsSecondRoot(parent) == parent = NoParent /\ rootNode # NULL

addParentMissing_never(parent) == FALSE
\* a parent that is not in the node index is refused
addParentMissing(parent) == parent # NoParent /\ ~getNode(parent)[2]

\* nodesPool.Get: a record that was Put, or one New makes
poolGet ==
    {r \in DOMAIN pool : pool[r] > 0} \cup {nalloc + 1}

\* the records and the pool once Get has returned record r: New has made it
\* when it is not one that was Put
gotRecs(r) == IF r \in DOMAIN recs THEN recs ELSE Append(recs, NewRecord)
gotPool(r) == IF r \in DOMAIN pool THEN [pool EXCEPT ![r] = @ - 1] ELSE Append(pool, 0)
gotAlloc(r) == IF r \in DOMAIN pool THEN nalloc ELSE nalloc + 1

\* the records after Add has filled record r and appended it to the parent's
\* child collection
addRecords(node, parentNode, r) ==
    LET filled == [gotRecs(r) EXCEPT ![r].ID = node.id, ![r].val = node]
    IN  IF parentNode # NULL
        THEN [filled EXCEPT ![parentNode].desc = SliceAppend(@, r)]
        ELSE filled

\* the root reference after Add
addRoot(parentNode, r) == IF parentNode = NULL THEN r ELSE rootNode

\* the counter after Add
addSize == size + 1

Add(node, parent) ==
    IF addIsSecondRoot(parent)
    THEN /\ call' = Result("Add", node.id, parent, ErrInvalidOperation, FALSE, <<node>>)
         /\ UNCHANGED <<tree, addsOk, removed, dupAdded>>
    ELSE IF addParentMissing(parent)
    THEN /\ call' = Result("Add", node.id, parent, ErrParentNodeNotFound, FALSE, <<node>>)
         /\ UNCHANGED <<tree, addsOk, removed, dupAdded>>
    ELSE /\ \E r \in poolGet :
              LET parentNode == IF parent = NoParent THEN NULL ELSE getNode(parent)[1]
              IN  /\ recs' = addRecords(node, parentNode, r)
                  /\ nodes' = MapStore(nodes, node.id, r)
                  /\ parents' = IF parentNode # NULL
                                THEN updateAncestors(parents, parent, node.id)
                                ELSE parents
                  /\ rootNode' = addRoot(parentNode, r)
                  /\ size' = addSize
                  /\ pool' = gotPool(r)
                  /\ nalloc' = gotAlloc(r)
         /\ call' = Result("Add", node.id, parent, "nil", TRUE, <<node>>)
         /\ addsOk' = addsOk + 1
         /\ dupAdded' = (dupAdded \/ node.id \in DOMAIN nodes)
         /\ UNCHANGED removed

\* ------------------------------------------------------------ Delete
\* a node that is not in the node index is refused
deleteNotFound(id) == ~getNode(id)[2]

\* the child collection after filterOutChild: the first child whose ID is
\* childID is deleted from the collection itself, which is also what is returned
filterOutChild(rs, children, childID) ==
    LET items == SliceItems(children)
        hits == {i \in 1..Len(items) : rs[items[i]].ID = childID}
    IN  IF hits = {} THEN children
        ELSE SliceDelete(children, (CHOOSE i \in hits : \A j \in hits : i <= j) - 1)

\* the parent's child collection after Delete has taken the node out of it:
\* children is the collection filterOutChild returned, which is the parent's
\* own, so the Reset empties what AppendMany then reads
detachChild(rs, parentRec, id) ==
    LET children == filterOutChild(rs, rs[parentRec].desc, id)
        afterReset == SliceReset(children)
    IN  SliceAppendMany(afterReset, SliceItems(afterReset))

\* the records after the first part of Delete
deleteDetach(id) ==
    LET a == MapLoad(parents, id)
    IN  IF a[2] /\ Len(a[1]) > 0
        THEN LET p == getNode(a[1][1])
             IN  IF p[2]
                 THEN [recs EXCEPT ![p[1]].desc = detachChild(recs, p[1], id)]
                 ELSE recs
        ELSE recs

\* what one visit of deleteChildren does to the indexes, the pool and the counter
deleteOne(st, r) ==
    [st EXCEPT !.nodes = MapDelete(@, st.recs[r].ID),
               !.parents = MapDelete(@, st.recs[r].ID),
               !.pool = [@ EXCEPT ![r] = @ + 1],
               !.size = @ - 1]

RECURSIVE deleteChildren(_, _)
RECURSIVE deleteLoop(_, _, _, _)
\* the loop over the snapshot n.Descendants.Items(): index i (1-based here)
deleteLoop(st, r, items, i) ==
    IF i > Len(items) THEN st
    ELSE LET cut == [st EXCEPT !.recs = [@ EXCEPT ![r].desc = SliceDelete(@, i - 1)]]
         IN  deleteLoop(deleteChildren(cut, items[i]), r, items, i + 1)

deleteChildren(st, r) ==
    deleteOne(deleteLoop(st, r, SliceItems(st.recs[r].desc), 1), r)

\* the identifiers whose ancestor chain holds id: the nodes below id
Below(id) ==
    {k \in DOMAIN nodes : k # id /\ k \in DOMAIN parents
                          /\ \E i \in 1..Len(parents[k]) : parents[k][i] = id}

Delete(id) ==
    IF deleteNotFound(id)
    THEN /\ call' = Result("Delete", id, 0, ErrNotFound, FALSE, << >>)
         /\ UNCHANGED <<tree, addsOk, removed, dupAdded>>
    ELSE LET n == getNode(id)[1]
             st == deleteChildren([recs |-> deleteDetach(id), nodes |-> nodes,
                                   parents |-> parents, pool |-> pool,
                                   size |-> size], n)
         IN  /\ recs' = st.recs
             /\ nodes' = st.nodes
             /\ parents' = st.parents
             /\ pool' = st.pool
             /\ size' = st.size
             /\ call' = Result("Delete", id, 0, "nil", TRUE, << >>)
             /\ removed' = removed + 1 + Cardinality(Below(id))
             /\ UNCHANGED <<nalloc, rootNode, addsOk, dupAdded>>

\* ------------------------------------------------------------ Reset
Reset ==
    /\ nodes' = EmptyMap
    /\ parents' = EmptyMap
    /\ size' = 0
    /\ call' = Result("Reset", NoKey, 0, "nil", TRUE, << >>)
    /\ addsOk' = 0
    /\ removed' = 0
    /\ dupAdded' = FALSE
    /\ UNCHANGED <<recs, nalloc, pool, rootNode>>

\* ------------------------------------------------------------ queries
\* sort.SliceStable by ID: a stable insertion sort
RECURSIVE insertByID(_, _)
insertByID(sorted, n) ==
    IF sorted = << >> THEN <<n>>
    ELSE IF n.id < sorted[Len(sorted)].id
         THEN Append(insertByID(SubSeq(sorted, 1, Len(sorted) - 1), n), sorted[Len(sorted)])
         ELSE Append(sorted, n)

sortByID_asCollected(list) == list
RECURSIVE sortByID(_)
sortByID(list) ==
    IF list = << >> THEN << >>
    ELSE insertByID(sortByID(SubSeq(list, 1, Len(list) - 1)), list[Len(list)])

\* the loop of Ancestors: the values of the chain's identifiers that resolve,
\* in chain order
RECURSIVE resolveChain(_)
resolveChain(chain) ==
    IF chain = << >> THEN << >>
    ELSE LET a == getNode(chain[1])
         IN  (IF a[2] THEN <<GetValue(recs, a[1])>> ELSE << >>)
             \o resolveChain(Tail(chain))

ancestorsOrder_unsorted(list) == list
\* the order in which Ancestors returns the values it has collected
ancestorsOrder(list) == sortByID(list)

Ancestors(id) ==
    LET a == getAncestors(id)
    IN  IF ~a[2] THEN [list |-> << >>, ok |-> FALSE]
        ELSE [list |-> ancestorsOrder(resolveChain(a[1])), ok |-> TRUE]

Find(key) ==
    LET n == getNode(key)
    IN  IF ~n[2] THEN [node |-> NilNode, ok |-> FALSE]
        ELSE [node |-> GetValue(recs, n[1]), ok |-> TRUE]

\* int(level) of a uint level: the upper half of uint wraps to the negatives
ToInt(level) == IF level >= 2^(IntBits - 1) THEN level - 2^IntBits ELSE level

\* ancestorAt: "panic" is the index-out-of-range fault of ancestors[level]
ancestorAt(id, level) ==
    LET a == getAncestors(id)
    IN  IF a[2] /\ Len(a[1]) > level
        THEN IF level < 0 THEN [rec |-> NULL, ok |-> FALSE, err |-> "panic"]
             ELSE LET n == getNode(a[1][level + 1])
                  IN  [rec |-> n[1], ok |-> n[2], err |-> "nil"]
        ELSE [rec |-> NULL, ok |-> FALSE, err |-> "nil"]

ParentAt(id, level) ==
    LET a == ancestorAt(id, ToInt(level))
    IN  IF ~a.ok THEN [node |-> NilNode, ok |-> FALSE, err |-> a.err]
        ELSE [node |-> GetValue(recs, a.rec), ok |-> TRUE, err |-> "nil"]

\* the records some chain of child links leads to
ChildrenOf(r) == {recs[r].desc[i] : i \in 1..Len(recs[r].desc)}

RECURSIVE reachable(_, _)
reachable(seen, frontier) ==
    IF frontier = {} THEN seen
    ELSE LET next == UNION {ChildrenOf(r) : r \in frontier}
         IN  reachable(seen \cup frontier, next \ (seen \cup frontier))

\* the recursion of collectDescendants never ends when the child links below
\* r hold a cycle
collectOverflows(r) ==
    \E c \in reachable({}, {r}) : c \in reachable({}, ChildrenOf(c))

\* collectDescendants: each child, then what is below it, depth first
RECURSIVE collectDescendants(_)
RECURSIVE collectEach(_)
collectEach(children) ==
    IF children = << >> THEN << >>
    ELSE <<children[1]>> \o collectDescendants(children[1]) \o collectEach(Tail(children))

collectDescendants(r) == collectEach(SliceItems(recs[r].desc))

\* the values of the records collected
RECURSIVE valuesOf(_)
valuesOf(rs) ==
    IF rs = << >> THEN << >> ELSE <<GetValue(recs, rs[1])>> \o valuesOf(Tail(rs))

Descendants(id) ==
    LET n == getNode(id)
    IN  IF ~n[2] THEN [list |-> << >>, ok |-> FALSE, err |-> "nil"]
        ELSE IF collectOverflows(n[1])
        THEN [list |-> << >>, ok |-> FALSE, err |-> "stack overflow"]
        ELSE [list |-> sortByID(valuesOf(collectDescendants(n[1]))), ok |-> TRUE,
              err |-> "nil"]

\* Nodes: the value of every entry of the node index, in no order
Nodes == {GetValue(recs, nodes[k]) : k \in DOMAIN nodes}

\* the visits of Range in Nodes: one per entry of the node index, each
\* appending the value of the entry's record
nodesRange == [k \in DOMAIN nodes |-> GetValue(recs, nodes[k])]
\* len(Nodes())
NodesLen == Cardinality(DOMAIN nodesRange)

\* the orders in which Range may visit the entries of the node index
RangeOrders ==
    LET n == Cardinality(DOMAIN nodes)
    IN  {o \in [1..n -> DOMAIN nodes] : \A i \in 1..n, j \in 1..n : i # j => o[i] # o[j]}
\* the list Nodes returns when Range visits the entries in the order given
nodesList(order) == [i \in 1..Len(order) |-> nodesRange[order[i]]]

\* the records after Descendants: collectDescendants appends what it visits to
\* a collection of its own, and the sort is of the list of values
descendantsRecords_intoNode(id) ==
    IF getNode(id)[2] /\ ~collectOverflows(nodes[id])
    THEN [recs EXCEPT ![nodes[id]].desc =
                          SliceAppendMany(@, collectDescendants(nodes[id]))]
    ELSE recs
descendantsRecords(id) == recs

\* Root: GetValue of the root reference, as it is; reading it through a nil
\* reference is the nil-dereference fault of x.Value.Load()
Root ==
    IF rootNode = NULL THEN [node |-> NilNode, err |-> "panic"]
    ELSE [node |-> GetValue(recs, rootNode), err |-> "nil"]

\* Size: the counter
Size == size

FindCall ==
    \E k \in Keys :
        /\ call' = Result("Find", k, 0, "nil", Find(k).ok, <<Find(k).node>>)
        /\ UNCHANGED <<tree, addsOk, removed, dupAdded, thr, shards>>

AncestorsCall ==
    \E k \in Keys :
        /\ call' = Result("Ancestors", k, 0, "nil", Ancestors(k).ok, Ancestors(k).list)
        /\ UNCHANGED <<tree, addsOk, removed, dupAdded, thr, shards>>

ParentAtCall ==
    \E k \in Keys, level \in Levels :
        /\ call' = Result("ParentAt", k, level, ParentAt(k, level).err,
                          ParentAt(k, level).ok, <<ParentAt(k, level).node>>)
        /\ UNCHANGED <<tree, addsOk, removed, dupAdded, thr, shards>>

DescendantsCall ==
    \E k \in Keys :
        /\ call' = Result("Descendants", k, 0, Descendants(k).err, Descendants(k).ok,
                          Descendants(k).list)
        /\ recs' = descendantsRecords(k)
        /\ UNCHANGED <<nodes, parents, nalloc, pool, size, rootNode, addsOk, removed,
                       dupAdded, thr, shards>>

RootCall ==
    /\ call' = Result("Root", NoKey, 0, Root.err, Root.err = "nil", <<Root.node>>)
    /\ UNCHANGED <<tree, addsOk, removed, dupAdded, thr, shards>>

\* Size(): the result is in arg
SizeCall ==
    /\ call' = Result("Size", NoKey, Size, "nil", TRUE, << >>)
    /\ UNCHANGED <<tree, addsOk, removed, dupAdded, thr, shards>>

NodesCall ==
    \E order \in RangeOrders :
        /\ call' = Result("Nodes", NoKey, 0, "nil", TRUE, nodesList(order))
        /\ UNCHANGED <<tree, addsOk, removed, dupAdded, thr, shards>>

\* the caller's nodes are distinct objects: the payload of the node passed to
\* Add is the serial number of the Add that may succeed next
AddCall ==
    \E k \in Keys, p \in Keys \cup {NoParent} :
        /\ ~(addsOk >= MaxAdds /\ ~addIsSecondRoot(p) /\ ~addParentMissing(p))
        /\ Add(NodeOf(k, addsOk + 1), p)
        /\ UNCHANGED <<thr, shards>>
DeleteCall == \E k \in Keys : Delete(k) /\ UNCHANGED <<thr, shards>>
ResetCall == Reset /\ UNCHANGED <<thr, shards>>

Next ==
    \/ AddCall
    \/ DeleteCall
    \/ ResetCall
    \/ FindCall
    \/ AncestorsCall
    \/ ParentAtCall
    \/ DescendantsCall
    \/ RootCall
    \/ SizeCall
    \/ NodesCall

Spec == Init /\ [][Next]_vars

\* the operations that change the tree, alone
NextMutators == AddCall \/ DeleteCall \/ ResetCall
SpecMutators == Init /\ [][NextMutators]_vars

\* the operations that change the tree, and Ancestors
NextAncestors == AddCall \/ DeleteCall \/ ResetCall \/ AncestorsCall
SpecAncestors == Init /\ [][NextAncestors]_vars

\* Add and Delete, and the two queries that return a list
NextLists == AddCall \/ DeleteCall \/ AncestorsCall \/ DescendantsCall
SpecLists == Init /\ [][NextLists]_vars

\* Add and every query
NextQueries ==
    \/ AddCall
    \/ FindCall
    \/ AncestorsCall
    \/ ParentAtCall
    \/ DescendantsCall
    \/ RootCall
    \/ SizeCall
    \/ NodesCall
SpecQueries == Init /\ [][NextQueries]_vars

\* record reuse: Add and Delete alone, with more Add calls; no identifier is
\* ever used twice (the identifier is the serial number of the Add), and the
\* parent is in the tree
AddReuse ==
    /\ addsOk < ReuseAdds
    /\ \E p \in (DOMAIN nodes) \cup {NoParent} :
          /\ p = NoParent => rootNode = NULL
          /\ Add(NodeOf(addsOk + 1, addsOk + 1), p)
          /\ UNCHANGED <<thr, shards>>
DeleteReuse == \E k \in DOMAIN nodes : Delete(k) /\ UNCHANGED <<thr, shards>>
NextReuse == AddReuse \/ DeleteReuse
SpecReuse == Init /\ [][NextReuse]_vars

\* ------------------------------------------------------------ goroutines
\* Add called from several goroutines: one step per access to what the
\* goroutines share (the node index, the ancestor-chain index, the pool, the
\* ID and the value of a record, a child collection, the counter, the root
\* reference).  The index operations hold their shard's lock, the counter and
\* a record's value are atomic and Slice.Append is taken to be safe for
\* concurrent use; the root reference and a record's ID are plain fields.

\* the goroutines that are inside a call
Running == {t \in DOMAIN thr : thr[t].pc # "idle"}
\* no goroutine is inside a call
AllIdle == Running = {}

\* goroutine t is at step pc of a call
At(t, pc) == t \in DOMAIN thr /\ thr[t].pc = pc
\* goroutine t may call: it has returned from its last call, or it is the
\* next goroutine to call into the tree for the first time
MayCall(t) == At(t, "idle") \/ t = Len(thr) + 1
\* the goroutines once t has the locals given
entered(t, locals) ==
    IF t \in DOMAIN thr THEN [thr EXCEPT ![t] = locals] ELSE Append(thr, locals)

\* the identifiers that are not in the tree and that no running Add is adding
FreeKeys ==
    {k \in 1..MaxAdds :
        /\ k \notin DOMAIN nodes
        /\ \A t \in Running : thr[t].op = "Add" => thr[t].node.id # k}
\* the callers use the identifiers in order as long as no node was removed,
\* and any identifier that is free after that
NextKeys ==
    IF removed = 0 /\ FreeKeys # {}
    THEN {CHOOSE k \in FreeKeys : \A j \in FreeKeys : k <= j}
    ELSE FreeKeys

\* the call begins and makes its checks: a read of the root reference for a
\* nil parent, a lookup of the parent otherwise
AddBegin(t) ==
    /\ MayCall(t)
    /\ FreeKeys # {}
    /\ \E p \in (DOMAIN nodes) \cup {NoParent}, key \in NextKeys :
         LET node == NodeOf(key, key)
             locals == [IdleThread EXCEPT
                           !.op = "Add", !.node = node, !.parent = p,
                           !.raced = \E u \in Running :
                                        /\ thr[u].parent = p
                                        /\ thr[u].pc \in {"get", "setID", "setValue", "store",
                                                         "append"}]
         IN  IF addIsSecondRoot(p)
             THEN /\ thr' = entered(t, [locals EXCEPT !.err = ErrInvalidOperation])
                  /\ call' = Result("Add", node.id, p, ErrInvalidOperation, FALSE, <<node>>)
             ELSE IF addParentMissing(p)
             THEN /\ thr' = entered(t, [locals EXCEPT !.err = ErrParentNodeNotFound])
                  /\ call' = Result("Add", node.id, p, ErrParentNodeNotFound, FALSE, <<node>>)
             ELSE /\ thr' = entered(t, [locals EXCEPT
                                           !.pc = "get",
                                           !.parentNode = IF p = NoParent THEN NULL
                                                          ELSE getNode(p)[1]])
                  /\ UNCHANGED call
    /\ UNCHANGED <<tree, addsOk, removed, dupAdded, shards>>

\* x.nodesPool.Get(): a record from the pool.  The record is not the
\* goroutine's own: the pool can hold it more than once, and child collections
\* and other goroutines can still hold it.
AddGet(t) ==
    /\ At(t, "get")
    /\ \E r \in poolGet :
         /\ recs' = gotRecs(r)
         /\ pool' = gotPool(r)
         /\ nalloc' = gotAlloc(r)
         /\ thr' = [thr EXCEPT ![t].pc = "setID", ![t].childNode = r]
    /\ UNCHANGED <<nodes, parents, size, rootNode, call, addsOk, removed, dupAdded, shards>>

\* childNode.ID = node.ID(), a plain write.  A plain read of the ID by another
\* goroutine finds the ID of before or of after this step; the IDs are strings
\* of one length, so that a read torn between the two is one of them.
AddSetID(t) ==
    /\ At(t, "setID")
    /\ recs' = [recs EXCEPT ![thr[t].childNode].ID = thr[t].node.id]
    /\ thr' = [thr EXCEPT ![t].pc = "setValue"]
    /\ UNCHANGED <<nodes, parents, nalloc, pool, size, rootNode, call, addsOk,
                   removed, dupAdded, shards>>

\* childNode.SetValue(val), an atomic store
AddSetValue(t) ==
    /\ At(t, "setValue")
    /\ recs' = [recs EXCEPT ![thr[t].childNode].val = thr[t].node]
    /\ thr' = [thr EXCEPT ![t].pc = "store"]
    /\ UNCHANGED <<nodes, parents, nalloc, pool, size, rootNode, call, addsOk,
                   removed, dupAdded, shards>>

\* x.nodes.Store
AddStore(t) ==
    /\ At(t, "store")
    /\ nodes' = MapStore(nodes, thr[t].node.id, thr[t].childNode)
    /\ thr' = [thr EXCEPT ![t].pc = IF thr[t].parentNode # NULL THEN "append"
                                    ELSE "setRoot"]
    /\ UNCHANGED <<parents, recs, nalloc, pool, size, rootNode, call, addsOk,
                   removed, dupAdded, shards>>

\* parentNode.Descendants.Append: one indivisible step on the collection
addAppend(rs, parentNode, r) == [rs EXCEPT ![parentNode].desc = SliceAppend(@, r)]

AddAppend(t) ==
    /\ At(t, "append")
    /\ recs' = addAppend(recs, thr[t].parentNode, thr[t].childNode)
    /\ thr' = [thr EXCEPT ![t].pc = "loadChain"]
    /\ UNCHANGED <<nodes, parents, nalloc, pool, size, rootNode, call, addsOk,
                   removed, dupAdded, shards>>

\* updateAncestors, the read: the chain to store for the child
AddLoadChain(t) ==
    /\ At(t, "loadChain")
    /\ thr' = [thr EXCEPT
                 ![t].pc = "storeChain",
                 ![t].chain = updateAncestors(parents, thr[t].parent,
                                              thr[t].node.id)[thr[t].node.id]]
    /\ UNCHANGED <<tree, call, addsOk, removed, dupAdded, shards>>

\* updateAncestors, the write
AddStoreChain(t) ==
    /\ At(t, "storeChain")
    /\ parents' = MapStore(parents, thr[t].node.id, thr[t].chain)
    /\ thr' = [thr EXCEPT ![t].pc = "size"]
    /\ UNCHANGED <<nodes, recs, nalloc, pool, size, rootNode, call, addsOk,
                   removed, dupAdded, shards>>

\* x.rootNode = childNode, a plain write
AddSetRoot(t) ==
    /\ At(t, "setRoot")
    /\ rootNode' = thr[t].childNode
    /\ thr' = [thr EXCEPT ![t].pc = "size"]
    /\ UNCHANGED <<nodes, parents, recs, nalloc, pool, size, call, addsOk,
                   removed, dupAdded, shards>>

\* x.size.Add(1), and the call returns nil
AddReturn(t) ==
    /\ At(t, "size")
    /\ size' = addSize
    /\ thr' = [thr EXCEPT ![t].pc = "idle", ![t].err = "nil"]
    /\ call' = Result("Add", thr[t].node.id, thr[t].parent, "nil", TRUE,
                      <<thr[t].node>>)
    /\ addsOk' = addsOk + 1
    /\ UNCHANGED <<nodes, parents, recs, nalloc, pool, rootNode, removed, dupAdded, shards>>

NextThreads ==
    \/ \E t \in Threads : AddBegin(t)
    \/ \E t \in Threads : AddGet(t)
    \/ \E t \in Threads : AddSetID(t)
    \/ \E t \in Threads : AddSetValue(t)
    \/ \E t \in Threads : AddStore(t)
    \/ \E t \in Threads : AddAppend(t)
    \/ \E t \in Threads : AddLoadChain(t)
    \/ \E t \in Threads : AddStoreChain(t)
    \/ \E t \in Threads : AddSetRoot(t)
    \/ \E t \in Threads : AddReturn(t)
SpecThreads == Init /\ [][NextThreads]_vars

\* ------------------------------------------------------------ Delete, by steps
\* Delete called from a goroutine: one step per access to what the goroutines
\* share.  Every operation of a child collection is one indivisible step.

\* goroutine t is the next one to call into the tree for the first time
FirstCall(t) == t = Len(thr) + 1

\* a call of deleteChildren: the record, the snapshot of its children, and the
\* place of the loop in the snapshot (1-based)
Frame(r) == [rec |-> r, items |-> << >>, i |-> 0]
\* the innermost call of deleteChildren of goroutine t
Top(t) == thr[t].stack[Len(thr[t].stack)]

\* x.getNode(node.ID())
DeleteBegin(t) ==
    /\ FirstCall(t)
    /\ \E k \in Keys :
         LET locals == [IdleThread EXCEPT !.op = "Delete", !.node = NodeOf(k, 0),
                                          !.raced = Running # {}]
         IN  IF deleteNotFound(k)
             THEN /\ thr' = entered(t, [locals EXCEPT !.err = ErrNotFound])
                  /\ call' = Result("Delete", k, 0, ErrNotFound, FALSE, << >>)
             ELSE /\ thr' = entered(t, [locals EXCEPT !.pc = "parentsLoad",
                                                      !.n = getNode(k)[1]])
                  /\ UNCHANGED call
    /\ UNCHANGED <<tree, addsOk, removed, dupAdded, shards>>

\* x.parents.Load(node.ID())
DeleteParentsLoad(t) ==
    /\ At(t, "parentsLoad")
    /\ LET a == MapLoad(parents, thr[t].node.id)
       IN  thr' = IF a[2] /\ Len(a[1]) > 0
                  THEN [thr EXCEPT ![t].pc = "getParent", ![t].chain = a[1]]
                  ELSE [thr EXCEPT ![t].pc = "items", ![t].stack = <<Frame(thr[t].n)>>]
    /\ UNCHANGED <<tree, call, addsOk, removed, dupAdded, shards>>

\* x.getNode(parentID)
DeleteGetParent(t) ==
    /\ At(t, "getParent")
    /\ LET p == getNode(thr[t].chain[1])
       IN  thr' = IF p[2]
                  THEN [thr EXCEPT ![t].pc = "filterItems", ![t].parentNode = p[1]]
                  ELSE [thr EXCEPT ![t].pc = "items", ![t].stack = <<Frame(thr[t].n)>>]
    /\ UNCHANGED <<tree, call, addsOk, removed, dupAdded, shards>>

\* filterOutChild: children.Items(), the snapshot its loop ranges over
DeleteFilterItems(t) ==
    /\ At(t, "filterItems")
    /\ LET items == SliceItems(recs[thr[t].parentNode].desc)
       IN  thr' = [thr EXCEPT ![t].pc = IF items = << >> THEN "reset" ELSE "filterID",
                              ![t].items = items, ![t].index = 1]
    /\ UNCHANGED <<tree, call, addsOk, removed, dupAdded, shards>>

\* filterOutChild: child.ID == childID, a plain read of the ID of the child
\* the loop is at
DeleteFilterID(t) ==
    /\ At(t, "filterID")
    /\ thr' = IF recs[thr[t].items[thr[t].index]].ID = thr[t].node.id
              THEN [thr EXCEPT ![t].pc = "filterDelete"]
              ELSE IF thr[t].index < Len(thr[t].items)
              THEN [thr EXCEPT ![t].index = @ + 1]
              ELSE [thr EXCEPT ![t].pc = "reset"]
    /\ UNCHANGED <<tree, call, addsOk, removed, dupAdded, shards>>

\* filterOutChild: children.Delete(i), of the collection as it is by now, at
\* the place the child had in the snapshot
DeleteFilterDelete(t) ==
    /\ At(t, "filterDelete")
    /\ recs' = [recs EXCEPT ![thr[t].parentNode].desc = SliceDelete(@, thr[t].index - 1)]
    /\ thr' = [thr EXCEPT ![t].pc = "reset"]
    /\ UNCHANGED <<nodes, parents, nalloc, pool, size, rootNode, call, addsOk,
                   removed, dupAdded, shards>>

\* parent.Descendants.Reset()
DeleteReset(t) ==
    /\ At(t, "reset")
    /\ recs' = [recs EXCEPT ![thr[t].parentNode].desc = SliceReset(@)]
    /\ thr' = [thr EXCEPT ![t].pc = "childrenItems"]
    /\ UNCHANGED <<nodes, parents, nalloc, pool, size, rootNode, call, addsOk,
                   removed, dupAdded, shards>>

\* children.Items(), of the collection filterOutChild returned: the parent's
DeleteChildrenItems(t) ==
    /\ At(t, "childrenItems")
    /\ thr' = [thr EXCEPT ![t].pc = "appendMany",
                          ![t].items = SliceItems(recs[thr[t].parentNode].desc)]
    /\ UNCHANGED <<tree, call, addsOk, removed, dupAdded, shards>>

\* parent.Descendants.AppendMany(...), and deleteChildren(n) is called
DeleteAppendMany(t) ==
    /\ At(t, "appendMany")
    /\ recs' = [recs EXCEPT ![thr[t].parentNode].desc = SliceAppendMany(@, thr[t].items)]
    /\ thr' = [thr EXCEPT ![t].pc = "items", ![t].stack = <<Frame(thr[t].n)>>]
    /\ UNCHANGED <<nodes, parents, nalloc, pool, size, rootNode, call, addsOk,
                   removed, dupAdded, shards>>

\* deleteChildren: n.Descendants.Items(), the snapshot the loop ranges over
DeleteItems(t) ==
    /\ At(t, "items")
    /\ thr' = [thr EXCEPT
                 ![t].pc = "loop",
                 ![t].stack = [@ EXCEPT ![Len(@)] =
                                  [rec |-> Top(t).rec,
                                   items |-> SliceItems(recs[Top(t).rec].desc),
                                   i |-> 1]]]
    /\ UNCHANGED <<tree, call, addsOk, removed, dupAdded, shards>>

\* deleteChildren: n.Descendants.Delete(index), and deleteChildren(child) is called
DeleteLoop(t) ==
    /\ At(t, "loop")
    /\ Top(t).i <= Len(Top(t).items)
    /\ recs' = [recs EXCEPT ![Top(t).rec].desc = SliceDelete(@, Top(t).i - 1)]
    /\ thr' = [thr EXCEPT
                 ![t].pc = "items",
                 ![t].stack = Append([@ EXCEPT ![Len(@)].i = @ + 1],
                                     Frame(Top(t).items[Top(t).i]))]
    /\ UNCHANGED <<nodes, parents, nalloc, pool, size, rootNode, call, addsOk,
                   removed, dupAdded, shards>>

\* deleteChildren, after the loop: n.ID, the argument of x.nodes.Delete, a
\* plain read
DeleteNodesID(t) ==
    /\ At(t, "loop")
    /\ Top(t).i > Len(Top(t).items)
    /\ thr' = [thr EXCEPT ![t].pc = "nodesDelete", ![t].id = recs[Top(t).rec].ID]
    /\ UNCHANGED <<tree, call, addsOk, removed, dupAdded, shards>>

\* x.nodes.Delete, of the ID that was read
DeleteNodesDelete(t) ==
    /\ At(t, "nodesDelete")
    /\ nodes' = MapDelete(nodes, thr[t].id)
    /\ thr' = [thr EXCEPT ![t].pc = "parentsID"]
    /\ UNCHANGED <<parents, recs, nalloc, pool, size, rootNode, call, addsOk,
                   removed, dupAdded, shards>>

\* n.ID, the argument of x.parents.Delete, a plain read once more
DeleteParentsID(t) ==
    /\ At(t, "parentsID")
    /\ thr' = [thr EXCEPT ![t].pc = "parentsDelete", ![t].id = recs[Top(t).rec].ID]
    /\ UNCHANGED <<tree, call, addsOk, removed, dupAdded, shards>>

\* x.parents.Delete, of the ID that was read
DeleteParentsDelete(t) ==
    /\ At(t, "parentsDelete")
    /\ parents' = MapDelete(parents, thr[t].id)
    /\ thr' = [thr EXCEPT ![t].pc = "put"]
    /\ UNCHANGED <<nodes, recs, nalloc, pool, size, rootNode, call, addsOk,
                   removed, dupAdded, shards>>

\* x.nodesPool.Put(n)
DeletePut(t) ==
    /\ At(t, "put")
    /\ pool' = [pool EXCEPT ![Top(t).rec] = @ + 1]
    /\ thr' = [thr EXCEPT ![t].pc = "sizeSub"]
    /\ UNCHANGED <<nodes, parents, recs, nalloc, size, rootNode, call, addsOk,
                   removed, dupAdded, shards>>

\* x.size.Add(-1), and this deleteChildren returns: to the loop of the one that
\* called it, or from Delete with nil
DeleteSizeSub(t) ==
    /\ At(t, "sizeSub")
    /\ size' = size - 1
    /\ removed' = removed + 1
    /\ IF Len(thr[t].stack) > 1
       THEN /\ thr' = [thr EXCEPT ![t].pc = "loop",
                                  ![t].stack = SubSeq(@, 1, Len(@) - 1)]
            /\ UNCHANGED call
       ELSE /\ thr' = [thr EXCEPT ![t].pc = "idle", ![t].err = "nil",
                                  ![t].stack = << >>]
            /\ call' = Result("Delete", thr[t].node.id, 0, "nil", TRUE, << >>)
    /\ UNCHANGED <<nodes, parents, recs, nalloc, pool, rootNode, addsOk, dupAdded, shards>>

\* ------------------------------------------------------------ Ancestors, by steps
\* what Ancestors returns once its loop is over
ancestorsReturn(id, list) == Result("Ancestors", id, 0, "nil", TRUE, ancestorsOrder(list))

\* x.getAncestors(node.ID())
AncestorsBegin(t) ==
    /\ FirstCall(t)
    /\ \E k \in Keys :
         LET a == getAncestors(k)
             locals == [IdleThread EXCEPT !.op = "Ancestors", !.node = NodeOf(k, 0),
                                          !.chain = a[1]]
         IN  IF ~a[2]
             THEN /\ thr' = entered(t, [locals EXCEPT !.err = "not found"])
                  /\ call' = Result("Ancestors", k, 0, "nil", FALSE, << >>)
             ELSE IF a[1] = << >>
             THEN /\ thr' = entered(t, [locals EXCEPT !.err = "nil"])
                  /\ call' = ancestorsReturn(k, << >>)
             ELSE /\ thr' = entered(t, [locals EXCEPT !.pc = "getAncestor", !.index = 1])
                  /\ UNCHANGED call
    /\ UNCHANGED <<tree, addsOk, removed, dupAdded, shards>>

\* the goroutine and the call record once the loop has dealt with one
\* identifier of the chain and has list in hand
ancestorsNext(t, list) ==
    IF thr[t].index < Len(thr[t].chain)
    THEN /\ thr' = [thr EXCEPT ![t].pc = "getAncestor", ![t].index = @ + 1,
                               ![t].ancestors = list]
         /\ UNCHANGED call
    ELSE /\ thr' = [thr EXCEPT ![t].pc = "idle", ![t].err = "nil",
                               ![t].ancestors = ancestorsOrder(list)]
         /\ call' = ancestorsReturn(thr[t].node.id, list)

\* x.getNode(ancestorID): an identifier that does not resolve is skipped
AncestorsGetNode(t) ==
    /\ At(t, "getAncestor")
    /\ LET a == getNode(thr[t].chain[thr[t].index])
       IN  IF a[2]
           THEN /\ thr' = [thr EXCEPT ![t].pc = "getValue", ![t].childNode = a[1]]
                /\ UNCHANGED call
           ELSE ancestorsNext(t, thr[t].ancestors)
    /\ UNCHANGED <<tree, addsOk, removed, dupAdded, shards>>

\* ancestor.GetValue(), appended to the list
AncestorsGetValue(t) ==
    /\ At(t, "getValue")
    /\ ancestorsNext(t, Append(thr[t].ancestors, GetValue(recs, thr[t].childNode)))
    /\ UNCHANGED <<tree, addsOk, removed, dupAdded, shards>>

\* the tree the goroutines find: built by Add calls made one after the other
\* before the first goroutine calls
AddFirst == thr = << >> /\ addsOk < MaxAdds /\ AddReuse

\* a goroutine calls Add once
AddOnce(t) == (IF t > Len(thr) THEN TRUE ELSE thr[t].op # "Add") /\ AddBegin(t)

\* Add, Delete and Ancestors from goroutines that run at the same time: a
\* goroutine may call Delete or Ancestors, as its first call, and then Add
NextRace ==
    \/ AddFirst
    \/ \E t \in Threads : AddOnce(t)
    \/ \E t \in Threads : AddGet(t)
    \/ \E t \in Threads : AddSetID(t)
    \/ \E t \in Threads : AddSetValue(t)
    \/ \E t \in Threads : AddStore(t)
    \/ \E t \in Threads : AddAppend(t)
    \/ \E t \in Threads : AddLoadChain(t)
    \/ \E t \in Threads : AddStoreChain(t)
    \/ \E t \in Threads : AddSetRoot(t)
    \/ \E t \in Threads : AddReturn(t)
    \/ \E t \in Threads : DeleteBegin(t)
    \/ \E t \in Threads : DeleteParentsLoad(t)
    \/ \E t \in Threads : DeleteGetParent(t)
    \/ \E t \in Threads : DeleteFilterItems(t)
    \/ \E t \in Threads : DeleteFilterID(t)
    \/ \E t \in Threads : DeleteFilterDelete(t)
    \/ \E t \in Threads : DeleteReset(t)
    \/ \E t \in Threads : DeleteChildrenItems(t)
    \/ \E t \in Threads : DeleteAppendMany(t)
    \/ \E t \in Threads : DeleteItems(t)
    \/ \E t \in Threads : DeleteLoop(t)
    \/ \E t \in Threads : DeleteNodesID(t)
    \/ \E t \in Threads : DeleteNodesDelete(t)
    \/ \E t \in Threads : DeleteParentsID(t)
    \/ \E t \in Threads : DeleteParentsDelete(t)
    \/ \E t \in Threads : DeletePut(t)
    \/ \E t \in Threads : DeleteSizeSub(t)
    \/ \E t \in Threads : AncestorsBegin(t)
    \/ \E t \in Threads : AncestorsGetNode(t)
    \/ \E t \in Threads : AncestorsGetValue(t)
SpecRace == Init /\ [][NextRace]_vars

\* a call made as a whole while no goroutine is inside a call
AddBetween == AllIdle /\ addsOk <= MaxAdds /\ AddReuse
DeleteBetween == AllIdle /\ DeleteReuse
\* the goroutine calls Add while no other call is running
AddAlone(t) == AllIdle /\ addsOk <= MaxAdds + 1 /\ AddBegin(t)

\* Add calls of one goroutine, step by step, on a tree that earlier Add and
\* Delete calls have built: no call runs at the same time as another
NextSteps ==
    \/ AddBetween
    \/ DeleteBetween
    \/ \E t \in {1} : AddAlone(t)
    \/ \E t \in {1} : AddGet(t)
    \/ \E t \in {1} : AddSetID(t)
    \/ \E t \in {1} : AddSetValue(t)
    \/ \E t \in {1} : AddStore(t)
    \/ \E t \in {1} : AddAppend(t)
    \/ \E t \in {1} : AddLoadChain(t)
    \/ \E t \in {1} : AddStoreChain(t)
    \/ \E t \in {1} : AddSetRoot(t)
    \/ \E t \in {1} : AddReturn(t)
SpecSteps == Init /\ [][NextSteps]_vars

\* ------------------------------------------------------------ ShardedMap, call by call
\* the operations of a ShardedMap, each one as a whole
MapLoadCall ==
    /\ \E k \in Keys :
         call' = Result("Load", k, ShardedLoad(shards, k)[1], "nil",
                        ShardedLoad(shards, k)[2], << >>)
    /\ UNCHANGED <<tree, addsOk, removed, dupAdded, thr, shards>>

MapStoreCall ==
    /\ \E k \in Keys, v \in Values :
         /\ shards' = ShardedStore(shards, k, v)
         /\ call' = Result("Store", k, v, "nil", TRUE, << >>)
    /\ UNCHANGED <<tree, addsOk, removed, dupAdded, thr>>

MapDeleteCall ==
    /\ \E k \in Keys :
         /\ shards' = ShardedDelete(shards, k)
         /\ call' = Result("MapDelete", k, 0, "nil", TRUE, << >>)
    /\ UNCHANGED <<tree, addsOk, removed, dupAdded, thr>>

MapResetCall ==
    /\ shards' = ShardedReset(shards)
    /\ call' = Result("MapReset", NoKey, 0, "nil", TRUE, << >>)
    /\ UNCHANGED <<tree, addsOk, removed, dupAdded, thr>>

MapRangeCall ==
    /\ \E order \in RangeOrdersOf(shards) :
         \E rets \in [1..Len(order) -> BOOLEAN] :
            call' = Result("Range", NoKey, 0, "nil", TRUE, rangeVisits(shards, order, rets))
    /\ UNCHANGED <<tree, addsOk, removed, dupAdded, thr, shards>>

NextMap == MapLoadCall \/ MapStoreCall \/ MapDeleteCall \/ MapResetCall \/ MapRangeCall
SpecMap == Init /\ [][NextMap]_vars

\* ------------------------------------------------------------ ShardedMap, by steps
\* the operations of a ShardedMap called from goroutines: one step for every
\* lock operation and for every access to a shard's map.  A goroutine that
\* waits for a lock has not taken the step yet.
IdleCaller ==
    [pc |-> "idle", op |-> "none", key |-> NoKey, value |-> NULL, i |-> 0,
     val |-> NULL, ok |-> FALSE, visited |-> << >>, pass |-> {}, held |-> {}]
\* i: the shard the call is at; val, ok: what Load has read; visited: the calls
\* of Range's visitor so far; pass: the keys met in the shard Range is at;
\* held: the shards whose lock the goroutine holds

\* Load: getShard and shard.RLock()
MapLoadRLock(t) ==
    /\ FirstCall(t)
    /\ \E k \in Keys :
         LET i == getShard(shards, k)
         IN  /\ CanRLock(shards, i)
             /\ shards' = RLock(shards, i)
             /\ thr' = entered(t, [IdleCaller EXCEPT !.pc = "mapRead", !.op = "Load",
                                                     !.key = k, !.i = i, !.held = {i}])
    /\ UNCHANGED <<tree, call, addsOk, removed, dupAdded>>

\* val, ok := shard.m[key]
MapLoadRead(t) ==
    /\ At(t, "mapRead")
    /\ thr' = [thr EXCEPT ![t].pc = "mapRUnlock",
                          ![t].val = shardRead(shards, thr[t].i, thr[t].key)[1],
                          ![t].ok = shardRead(shards, thr[t].i, thr[t].key)[2]]
    /\ UNCHANGED <<tree, call, addsOk, removed, dupAdded, shards>>

\* shard.RUnlock(), and Load returns
MapLoadRUnlock(t) ==
    /\ At(t, "mapRUnlock")
    /\ shards' = RUnlock(shards, thr[t].i)
    /\ thr' = [thr EXCEPT ![t].pc = "idle", ![t].held = {}]
    /\ call' = Result("Load", thr[t].key, thr[t].val, "nil", thr[t].ok, << >>)
    /\ UNCHANGED <<tree, addsOk, removed, dupAdded>>

\* Store with shard.RLock() in the place of shard.Lock()
MapStoreLock_shared(t) ==
    /\ FirstCall(t)
    /\ \E k \in Keys, v \in Values :
         LET i == getShard(shards, k)
         IN  /\ CanRLock(shards, i)
             /\ shards' = RLock(shards, i)
             /\ thr' = entered(t, [IdleCaller EXCEPT !.pc = "mapWrite", !.op = "Store",
                                                     !.key = k, !.value = v, !.i = i,
                                                     !.held = {i}])
    /\ UNCHANGED <<tree, call, addsOk, removed, dupAdded>>

\* Store: getShard and shard.Lock()
MapStoreLock(t) ==
    /\ FirstCall(t)
    /\ \E k \in Keys, v \in Values :
         LET i == getShard(shards, k)
         IN  /\ CanLock(shards, i)
             /\ shards' = Lock(shards, i)
             /\ thr' = entered(t, [IdleCaller EXCEPT !.pc = "mapWrite", !.op = "Store",
                                                     !.key = k, !.value = v, !.i = i,
                                                     !.held = {i}])
    /\ UNCHANGED <<tree, call, addsOk, removed, dupAdded>>

\* shard.m[key] = value
MapStoreWrite(t) ==
    /\ At(t, "mapWrite")
    /\ shards' = shardWrite(shards, thr[t].i, thr[t].key, thr[t].value)
    /\ thr' = [thr EXCEPT ![t].pc = "mapUnlock"]
    /\ UNCHANGED <<tree, call, addsOk, removed, dupAdded>>

\* shard.Unlock(), and Store or Delete returns
MapUnlock(t) ==
    /\ At(t, "mapUnlock")
    /\ shards' = Unlock(shards, thr[t].i)
    /\ thr' = [thr EXCEPT ![t].pc = "idle", ![t].held = {}]
    /\ call' = Result(thr[t].op, thr[t].key, thr[t].value, "nil", TRUE, << >>)
    /\ UNCHANGED <<tree, addsOk, removed, dupAdded>>

\* Delete: getShard and shard.Lock()
MapDeleteLock(t) ==
    /\ FirstCall(t)
    /\ \E k \in Keys :
         LET i == getShard(shards, k)
         IN  /\ CanLock(shards, i)
             /\ shards' = Lock(shards, i)
             /\ thr' = entered(t, [IdleCaller EXCEPT !.pc = "mapDelete", !.op = "MapDelete",
                                                     !.key = k, !.i = i, !.held = {i}])
    /\ UNCHANGED <<tree, call, addsOk, removed, dupAdded>>

\* delete(shard.m, key)
MapDeleteWrite(t) ==
    /\ At(t, "mapDelete")
    /\ shards' = shardDelete(shards, thr[t].i, thr[t].key)
    /\ thr' = [thr EXCEPT ![t].pc = "mapUnlock"]
    /\ UNCHANGED <<tree, call, addsOk, removed, dupAdded>>

\* Range is called: its loop starts at the first shard
MapRangeBegin(t) ==
    /\ FirstCall(t)
    /\ thr' = entered(t, [IdleCaller EXCEPT !.pc = "rangeRLock", !.op = "Range", !.i = 1])
    /\ UNCHANGED <<tree, call, addsOk, removed, dupAdded, shards>>

\* shard.RLock()
MapRangeRLock(t) ==
    /\ At(t, "rangeRLock")
    /\ CanRLock(shards, thr[t].i)
    /\ shards' = RLock(shards, thr[t].i)
    /\ thr' = [thr EXCEPT ![t].pc = "rangeVisit", ![t].pass = {},
                          ![t].held = @ \cup {thr[t].i}]
    /\ UNCHANGED <<tree, call, addsOk, removed, dupAdded>>

\* f(k, v) with a break out of the shard's loop when f returns false
MapRangeVisit_untilFalse(t) ==
    /\ At(t, "rangeVisit")
    /\ \E k \in (DOMAIN shards[thr[t].i].m) \ thr[t].pass, b \in BOOLEAN :
         thr' = [thr EXCEPT ![t].visited = Append(@, Visit(k, shards[thr[t].i].m[k], b)),
                            ![t].pass = IF b THEN @ \cup {k}
                                             ELSE DOMAIN shards[thr[t].i].m]
    /\ UNCHANGED <<tree, call, addsOk, removed, dupAdded, shards>>

\* f(k, v) for an entry of the shard that the loop has not met yet; what f
\* returns is dropped
MapRangeVisit(t) ==
    /\ At(t, "rangeVisit")
    /\ \E k \in (DOMAIN shards[thr[t].i].m) \ thr[t].pass, b \in BOOLEAN :
         thr' = [thr EXCEPT ![t].visited = Append(@, Visit(k, shards[thr[t].i].m[k], b)),
                            ![t].pass = @ \cup {k}]
    /\ UNCHANGED <<tree, call, addsOk, removed, dupAdded, shards>>

\* shard.RUnlock() after the last entry of the shard, and the next shard or
\* the return
MapRangeRUnlock(t) ==
    /\ At(t, "rangeVisit")
    /\ (DOMAIN shards[thr[t].i].m) \ thr[t].pass = {}
    /\ shards' = RUnlock(shards, thr[t].i)
    /\ IF thr[t].i < Len(shards)
       THEN /\ thr' = [thr EXCEPT ![t].pc = "rangeRLock", ![t].i = @ + 1,
                                  ![t].held = @ \ {thr[t].i}]
            /\ UNCHANGED call
       ELSE /\ thr' = [thr EXCEPT ![t].pc = "idle", ![t].held = @ \ {thr[t].i}]
            /\ call' = Result("Range", NoKey, 0, "nil", TRUE, thr[t].visited)
    /\ UNCHANGED <<tree, addsOk, removed, dupAdded>>

\* Reset is called: its loop starts at the first shard
MapResetBegin(t) ==
    /\ FirstCall(t)
    /\ thr' = entered(t, [IdleCaller EXCEPT !.pc = "resetLock", !.op = "MapReset", !.i = 1])
    /\ UNCHANGED <<tree, call, addsOk, removed, dupAdded, shards>>

\* shard.Lock()
MapResetLock(t) ==
    /\ At(t, "resetLock")
    /\ CanLock(shards, thr[t].i)
    /\ shards' = Lock(shards, thr[t].i)
    /\ thr' = [thr EXCEPT ![t].pc = "resetMake", ![t].held = @ \cup {thr[t].i}]
    /\ UNCHANGED <<tree, call, addsOk, removed, dupAdded>>

\* shard.m = make(map[string]any)
MapResetMake(t) ==
    /\ At(t, "resetMake")
    /\ shards' = shardMake(shards, thr[t].i)
    /\ thr' = [thr EXCEPT ![t].pc = "resetUnlock"]
    /\ UNCHANGED <<tree, call, addsOk, removed, dupAdded>>

\* shard.Unlock(), and the next shard or the return
MapResetUnlock(t) ==
    /\ At(t, "resetUnlock")
    /\ shards' = Unlock(shards, thr[t].i)
    /\ IF thr[t].i < Len(shards)
       THEN /\ thr' = [thr EXCEPT ![t].pc = "resetLock", ![t].i = @ + 1,
                                  ![t].held = @ \ {thr[t].i}]
            /\ UNCHANGED call
       ELSE /\ thr' = [thr EXCEPT ![t].pc = "idle", ![t].held = @ \ {thr[t].i}]
            /\ call' = Result("MapReset", NoKey, 0, "nil", TRUE, << >>)
    /\ UNCHANGED <<tree, addsOk, removed, dupAdded>>

\* the map the goroutines find is the work of Stores made one after the other
\* before the first goroutine calls; every goroutine makes one call
NextShards ==
    \/ thr = << >> /\ MapStoreCall
    \/ \E t \in Threads : MapLoadRLock(t)
    \/ \E t \in Threads : MapLoadRead(t)
    \/ \E t \in Threads : MapLoadRUnlock(t)
    \/ \E t \in Threads : MapStoreLock(t)
    \/ \E t \in Threads : MapStoreWrite(t)
    \/ \E t \in Threads : MapUnlock(t)
    \/ \E t \in Threads : MapDeleteLock(t)
    \/ \E t \in Threads : MapDeleteWrite(t)
    \/ \E t \in Threads : MapRangeBegin(t)
    \/ \E t \in Threads : MapRangeRLock(t)
    \/ \E t \in Threads : MapRangeVisit(t)
    \/ \E t \in Threads : MapRangeRUnlock(t)
    \/ \E t \in Threads : MapResetBegin(t)
    \/ \E t \in Threads : MapResetLock(t)
    \/ \E t \in Threads : MapResetMake(t)
    \/ \E t \in Threads : MapResetUnlock(t)
SpecShards == Init /\ [][NextShards]_vars

\* ------------------------------------------------------------ claims
\* the identifiers of a list of nodes
IDs(list) == [i \in 1..Len(list) |-> list[i].id]
\* the identifiers on the ancestor chain of id
ChainSet(id) ==
    IF id \in DOMAIN parents THEN {parents[id][i] : i \in 1..Len(parents[id])} ELSE {}
\* a parentless node is in the node index
RootExists == \E k \in DOMAIN nodes : k \notin DOMAIN parents
\* the step is a call of op that returned nil
Succeeded(op) == call'.op = op /\ call'.err = "nil"

\* C1: after any sequence of calls with identifiers that are unique in the
\* tree, Size() is the number of Add calls that returned nil minus the nodes
\* the successful Delete calls had to remove, 1 + the nodes below the deleted
\* one for each.
C1_SizeIsAddsMinusRemoved == ~dupAdded => size = addsOk - removed

\* C2: while a root exists, Add(node, nil) returns ErrInvalidOperation and
\* leaves the indexes, the records, the pool, the counter and the root
\* reference as they were.
C2_SecondRootRefused ==
    [][(call'.op = "Add" /\ call'.arg = NoParent /\ RootExists)
        => (call'.err = "ErrInvalidOperation" /\ UNCHANGED tree)]_vars

\* a second root has been refused while the first one had a child
C2_Witness ==
    /\ call.op = "Add" /\ call.arg = NoParent /\ call.err = "ErrInvalidOperation"
    /\ RootExists
    /\ size = 2

\* C3: Add under a parent whose identifier is not in the node index returns
\* ErrParentNodeNotFound and leaves the indexes, the records, the pool, the
\* counter and the root reference as they were; Find reports for every
\* identifier what it reported before.
C3_MissingParentRefused ==
    [][(call'.op = "Add" /\ call'.arg # NoParent /\ call'.arg \notin DOMAIN nodes)
        => /\ call'.err = "ErrParentNodeNotFound"
           /\ UNCHANGED tree
           /\ \A k \in Keys : Find(k)' = Find(k)]_vars

\* Add has been refused under a parent that Delete had removed, for a node
\* whose identifier is in the tree
C3_Witness ==
    /\ call.op = "Add" /\ call.err = "ErrParentNodeNotFound"
    /\ \E r \in DOMAIN recs : pool[r] > 0 /\ recs[r].ID = call.arg
    /\ call.id \in DOMAIN nodes

\* the identifiers a Delete of id has to remove
Gone(id) == {id} \cup Below(id)

\* C4: after a successful Delete(n), with identifiers that are unique in the
\* tree, Find reports not-found for n and for every node that was below n,
\* Nodes() holds none of them, and neither does Descendants of an ancestor of n
\* that is still in the tree.
C4_DeleteRemovesSubtree ==
    [][\A id \in Keys :
        (Succeeded("Delete") /\ call'.id = id /\ ~dupAdded)
        => \A k \in Gone(id) :
             /\ ~Find(k)'.ok
             /\ \A n \in Nodes' : n.id # k
             /\ \A a \in ChainSet(id) :
                  Find(a)'.ok =>
                    \A i \in 1..Len(Descendants(a)'.list) :
                        Descendants(a)'.list[i].id # k]_vars

\* C5: a successful Delete(n), with identifiers that are unique in the tree,
\* leaves every node outside n's subtree in the node index with its value, and
\* Descendants of n's parent afterwards is what it was before without n and
\* the nodes below n.
C5_DeleteKeepsTheRest ==
    [][\A id \in Keys, p \in Keys :
        (Succeeded("Delete") /\ call'.id = id /\ ~dupAdded)
        => /\ \A k \in (DOMAIN nodes) \ Gone(id) : Find(k)' = Find(k)
           /\ (id \in DOMAIN parents /\ parents[id][1] = p /\ Find(p).ok)
                => Descendants(p)'.list
                     = SelectSeq(Descendants(p).list, LAMBDA n : n.id \notin Gone(id))]_vars

\* C6: Delete of a node whose identifier is not in the node index returns
\* ErrNotFound and leaves the indexes, the records, the pool, the counter and
\* the root reference as they were.
C6_DeleteMissingRefused ==
    [][(call'.op = "Delete" /\ call'.id \notin DOMAIN nodes)
        => (call'.err = "ErrNotFound" /\ UNCHANGED tree)]_vars

\* Delete has been refused for a node that is not in a tree of two nodes
C6_Witness ==
    /\ call.op = "Delete" /\ call.err = "ErrNotFound"
    /\ call.id \notin DOMAIN nodes
    /\ size = 2 /\ Cardinality(DOMAIN nodes) = 2

\* the records of the node index that have record r among their children
ParentRecs(r) == {p \in DOMAIN recs : (\E k \in DOMAIN nodes : nodes[k] = p) /\ r \in ChildrenOf(p)}

RECURSIVE above(_, _)
above(seen, frontier) ==
    IF frontier = {} THEN seen
    ELSE LET next == UNION {ParentRecs(r) : r \in frontier}
         IN  above(seen \cup frontier, next \ (seen \cup frontier))

\* the identifiers on the path of child links from the root down to the parent of id
PathIDs(id) == {recs[p].ID : p \in above({}, ParentRecs(nodes[id]))}

\* a list of identifiers that never descends
Ascending(ids) == \A i \in 1..(Len(ids) - 1) : ids[i] <= ids[i + 1]

\* C7: with identifiers that are unique in the tree, Ancestors of a node that
\* is in the tree reports ok = true and returns exactly the nodes on the path
\* from its parent up to the root, as many as the node is deep (none, with
\* ok = true, for the root); Ancestors of a node that is not in the tree
\* returns (nil, false).
C7_AncestorsIsPathToRoot ==
    (call.op = "Ancestors" /\ ~dupAdded)
    => IF call.id \in DOMAIN nodes
       THEN /\ call.ok
            /\ {call.list[i].id : i \in 1..Len(call.list)} = PathIDs(call.id)
            /\ Len(call.list) = Cardinality(PathIDs(call.id))
       ELSE ~call.ok /\ call.list = << >>

\* C8: with identifiers that are unique in the tree, the list Ancestors returns
\* when every identifier of the chain resolves is the chain itself: element 0
\* the immediate parent, the last element the root.
C8_AncestorsNearestFirst ==
    (call.op = "Ancestors" /\ call.ok /\ ~dupAdded
        /\ Len(call.list) = Len(parents[call.id]))
    => IDs(call.list) = parents[call.id]

\* C8 as amended: the list Ancestors returns holds the values of the chain's
\* identifiers that resolve, in ascending order of identifier; it is in chain
\* order, nearest parent first, exactly when those identifiers ascend from the
\* parent to the root.
C8_AncestorsSortedByID ==
    (call.op = "Ancestors" /\ call.ok)
    => LET resolved == resolveChain(parents[call.id])
       IN  /\ Ascending(IDs(call.list))
           /\ Len(call.list) = Len(resolved)
           /\ \A i \in 1..Len(resolved) : \E j \in 1..Len(call.list) : call.list[j] = resolved[i]
           /\ (call.list = resolved) <=> Ascending(IDs(resolved))

\* Ancestors has returned the root before the parent for a grandchild of the root
C8_Witness ==
    /\ call.op = "Ancestors" /\ call.ok /\ ~dupAdded
    /\ Len(call.list) = 2
    /\ Len(parents[call.id]) = 2
    /\ call.list[1].id = parents[call.id][2]
    /\ call.list[2].id = parents[call.id][1]

\* C9: with identifiers that are unique in the tree, ParentAt(node, k) of a
\* node of the tree with a chain of d identifiers and 0 <= k < d reports
\* ok = true and returns the node whose identifier is entry k of the chain.
C9_ParentAtReturnsAncestor ==
    (call.op = "ParentAt" /\ ~dupAdded /\ call.id \in DOMAIN nodes
        /\ call.id \in DOMAIN parents /\ call.arg < Len(parents[call.id]))
    => /\ call.ok
       /\ call.err = "nil"
       /\ call.list[1].id = parents[call.id][call.arg + 1]

\* C10: with identifiers that are unique in the tree, ParentAt returns
\* (nil, false) without a fault when the node is not in the tree or the level
\* is at least the length of its chain, for every value of the unsigned level.
C10_ParentAtOutOfRange ==
    (call.op = "ParentAt" /\ ~dupAdded
        /\ (call.id \notin DOMAIN nodes
            \/ call.arg >= (IF call.id \in DOMAIN parents THEN Len(parents[call.id]) ELSE 0)))
    => /\ call.err = "nil"
       /\ ~call.ok
       /\ call.list = <<NilNode>>

\* the identifiers of a list of nodes, as a set
IDSet(list) == {list[i].id : i \in 1..Len(list)}

\* C11: with identifiers that are unique in the tree, Descendants of a node of
\* the tree reports ok = true and returns exactly the nodes of the tree below
\* it (the nodes added under it or under a node below it and not deleted
\* since), each once and without the node itself; Descendants of a node that is
\* not in the tree returns (nil, false).
C11_DescendantsIsSubtree ==
    (call.op = "Descendants" /\ ~dupAdded)
    => IF call.id \in DOMAIN nodes
       THEN /\ call.ok
            /\ call.err = "nil"
            /\ IDSet(call.list) = Below(call.id)
            /\ Len(call.list) = Cardinality(Below(call.id))
       ELSE ~call.ok /\ call.list = << >>

\* C12: Find follows the calls: a successful Add(n) makes Find(n.ID) return
\* (n, true); a successful Delete(n), with identifiers that are unique in the
\* tree, makes Find return (nil, false) for n and every node below n; Reset
\* makes it return (nil, false) for every key; and no call changes what Find
\* returns for any other key.
C12_FindFollowsTheCalls ==
    [][\A id \in Keys, k \in Keys :
        (call'.id = id \/ call'.op \notin {"Add", "Delete"})
        => IF Succeeded("Add") /\ id = k
           THEN Find(k)' = [node |-> call'.list[1], ok |-> TRUE]
           ELSE IF Succeeded("Delete") /\ k \in Gone(id)
           THEN dupAdded \/ Find(k)' = [node |-> NilNode, ok |-> FALSE]
           ELSE IF call'.op = "Reset"
           THEN Find(k)' = [node |-> NilNode, ok |-> FALSE]
           ELSE dupAdded \/ Find(k)' = Find(k)]_vars

\* C13: after Reset, Size() is 0, Nodes() is empty, Find reports not-found for
\* every key and Root() returns nil.
C13_ResetEmptiesTheTree ==
    call.op = "Reset"
    => /\ Size = 0
       /\ Nodes = {}
       /\ \A k \in Keys : Find(k) = [node |-> NilNode, ok |-> FALSE]
       /\ Root = [node |-> NilNode, err |-> "nil"]

\* C14: Root() on a tree to which nothing has been added yet returns nil
\* without a fault, and right after a successful Add(r, nil) Root() returns r.
C14_RootOfNewTree ==
    /\ (call.op = "Root" /\ nalloc = 0)
         => (call.err = "nil" /\ call.list = <<NilNode>>)
    /\ (call.op = "Add" /\ call.arg = NoParent /\ call.err = "nil")
         => Root = [node |-> call.list[1], err |-> "nil"]

\* C15: with identifiers that are unique in the tree, after a successful
\* Delete of the root (the node of the tree that has no ancestor chain)
\* Size() is 0, Nodes() is empty and Root() returns nil.
C15_DeleteRootEmptiesTheTree ==
    [][(Succeeded("Delete") /\ call'.id \in DOMAIN nodes
            /\ call'.id \notin DOMAIN parents /\ ~dupAdded)
        => /\ Size' = 0
           /\ Nodes' = {}
           /\ Root' = [node |-> NilNode, err |-> "nil"]]_vars

\* C16: Add(n, nil) right after Reset returns nil, makes Root() return n and
\* Size() return 1, and leaves n in the node index so that Add under n passes
\* the parent check.
C16_AddRootAfterReset ==
    [][(call.op = "Reset" /\ call'.op = "Add" /\ call'.arg = NoParent)
        => /\ call'.err = "nil"
           /\ Root' = [node |-> call'.list[1], err |-> "nil"]
           /\ Size' = 1
           /\ call'.id \in DOMAIN nodes']_vars

\* the identifiers of the records that child links lead to from the root, the
\* root's own among them; none when no root is in the node index
FromRoot ==
    UNION {{recs[r].ID : r \in reachable({}, {nodes[k]})} :
             k \in {x \in DOMAIN nodes : x \notin DOMAIN parents}}

\* C20: after every call of a sequence of Add, Delete and Reset calls with
\* identifiers that are unique in the tree, the nodes in the node index are
\* exactly the nodes that child links lead to from the root.
C20_NoOrphans == ~dupAdded => DOMAIN nodes = FromRoot

\* C17: with no call running concurrently and no identifier ever used twice,
\* Nodes() has one element per entry of the node index, the node added under
\* that entry's key, and as many elements as Size() says.
C17_NodesIsTheIndex ==
    ~dupAdded
    => /\ \A k \in DOMAIN nodes : nodesRange[k].id = k
       /\ NodesLen = Size

\* the identifiers of the nodes in the child collection of the node id
ChildIDs(id) == {recs[c].ID : c \in ChildrenOf(nodes[id])}
\* the nodes of the tree that were added under id
AddedUnder(id) == {k \in DOMAIN parents : k \in DOMAIN nodes /\ parents[k][1] = id}

\* the nodes of the tree that were added under id or under a node added below it
RECURSIVE AddedBelow(_)
AddedBelow(id) == UNION {{k} \cup AddedBelow(k) : k \in AddedUnder(id)}

\* no update is lost on a tree that only Add has been called on: Add calls of
\* nodes with distinct identifiers under parents that are in the tree, from
\* goroutines that run at the same time, all return nil; and when all have
\* returned, the child collection of every node holds exactly the nodes added
\* under it, each once, Descendants of a node returns exactly the nodes added
\* below it, each once, and Size() is the number of Add calls that returned nil
ConcurrentAddsAllLand ==
    /\ \A t \in DOMAIN thr :
         (thr[t].pc = "idle" /\ thr[t].parent # NoParent) => thr[t].err = "nil"
    /\ AllIdle
         => /\ Size = addsOk
            /\ \A p \in DOMAIN nodes :
                 /\ ChildIDs(p) = AddedUnder(p)
                 /\ Len(recs[nodes[p]].desc) = Cardinality(AddedUnder(p))
                 /\ Descendants(p).ok
                 /\ IDSet(Descendants(p).list) = AddedBelow(p)
                 /\ Len(Descendants(p).list) = Cardinality(AddedBelow(p))

\* two goroutines have returned from Add calls under one parent, of which one
\* began before the other had appended its node to the parent's children
ConcurrentAddsHaveRaced ==
    /\ AllIdle
    /\ \E t \in DOMAIN thr, u \in DOMAIN thr :
         /\ t # u
         /\ thr[t].raced
         /\ thr[t].parent # NoParent /\ thr[u].parent = thr[t].parent
         /\ thr[t].err = "nil" /\ thr[u].err = "nil"
         /\ Cardinality(AddedUnder(thr[t].parent)) >= 2

\* what Descendants(id) returns in the state a step leads to, computed inside
\* out: the records collected, then their values, then the values sorted
DescendantsNext(id) ==
    IF id \notin DOMAIN nodes'
    THEN [list |-> << >>, ok |-> FALSE, err |-> "nil"]
    ELSE CHOOSE d \in
             {IF collectOverflows(r)'
              THEN [list |-> << >>, ok |-> FALSE, err |-> "stack overflow"]
              ELSE CHOOSE e \in
                       {[list |-> sortByID(vs)', ok |-> TRUE, err |-> "nil"] :
                           vs \in {valuesOf(cd)' : cd \in {collectDescendants(r)'}}} : TRUE
              : r \in {nodes'[id]}} : TRUE

\* C18: an Add of a node with a new identifier under a parent that is in the
\* tree returns nil, adds exactly that node to what Descendants(parent)
\* returned before, and adds one to Size(); so do N such calls, whether the
\* goroutines that make them run one after the other or at the same time.
C18_AddsLandUnderTheParent ==
    [][\A p \in DOMAIN nodes :
        (call'.op = "Add" /\ call'.arg = p /\ ~dupAdded')
        => /\ call'.err = "nil"
           /\ DescendantsNext(p).ok
           /\ IDSet(DescendantsNext(p).list) = IDSet(Descendants(p).list) \cup {call'.id}
           /\ Len(DescendantsNext(p).list) = Len(Descendants(p).list) + 1
           /\ Size' = Size + 1]_vars

\* C19: when no goroutine is inside a call, at most one node of the node index
\* has no parent: of the Add(n, nil) calls at most one has returned nil.
C19_AtMostOneRoot ==
    AllIdle => Cardinality({k \in DOMAIN nodes : k \notin DOMAIN parents}) <= 1

\* C23: the list a successful Ancestors or Descendants call returns is in
\* ascending order of node identifier, in whatever order and at whatever depth
\* its nodes were added.
C23_ListsSortedByID ==
    (call.op \in {"Ancestors", "Descendants"} /\ call.ok)
    => \A i \in 1..Len(call.list), j \in 1..Len(call.list) :
         i < j => call.list[i].id <= call.list[j].id

\* Descendants has returned two nodes or more, of different depths, that the
\* traversal had collected in another order
C23_Witness ==
    /\ call.op = "Descendants" /\ call.ok /\ ~dupAdded
    /\ Len(call.list) >= 2
    /\ call.list # valuesOf(collectDescendants(nodes[call.id]))
    /\ \E i \in 1..Len(call.list), j \in 1..Len(call.list) :
         Len(parents[call.list[i].id]) # Len(parents[call.list[j].id])

\* C25: Add(node, parent) with a parent that is in the node index and an
\* identifier that is in the node index already returns nil; afterwards Find
\* returns the node just added, the identifier's ancestor chain is the parent
\* followed by the chain the parent had, and Size() is one more than before.
C25_AddOverwritesDuplicate ==
    [][call'.op = "Add" =>
       \A id \in DOMAIN nodes, p \in DOMAIN nodes :
        (call'.id = id /\ call'.arg = p)
        => /\ call'.err = "nil"
           /\ Find(id)' = [node |-> call'.list[1], ok |-> TRUE]
           /\ getAncestors(id)' = <<<<p>> \o getAncestors(p)[1], TRUE>>
           /\ Size' = Size + 1]_vars

\* an identifier of the tree has been added again under a parent: Find returns
\* the new node, the record the identifier had is still among the children of
\* its parent, and Size() counts both
C25_Witness ==
    /\ call.op = "Add" /\ call.err = "nil" /\ dupAdded
    /\ call.arg # NoParent /\ call.arg # call.id
    /\ call.id \in DOMAIN parents /\ parents[call.id][1] = call.arg
    /\ Find(call.id).node = call.list[1]
    /\ \E q \in DOMAIN nodes :
         \E c \in ChildrenOf(nodes[q]) : recs[c].ID = call.id /\ c # nodes[call.id]
    /\ Size > Cardinality(DOMAIN nodes)

Queries == {"Find", "Ancestors", "ParentAt", "Descendants", "Root", "Size", "Nodes"}

\* C30: a call of Find, Ancestors, ParentAt, Descendants, Root, Size or Nodes
\* leaves the node index, the ancestor-chain index, every record with its child
\* collection, the pool, the root reference and the counter as they were,
\* whatever it returns.
C30_QueriesReadOnly ==
    [][call'.op \in Queries => UNCHANGED tree]_vars

\* Descendants has returned the two nodes below a node of the tree, one of them
\* a grandchild, and the node has its one child as before
C30_Witness ==
    /\ call.op = "Descendants" /\ call.ok /\ Len(call.list) = 2
    /\ \E i \in 1..2 : Len(parents[call.list[i].id]) = 2
    /\ Len(recs[nodes[call.id]].desc) = 1

\* every node of the tree that has an ancestor chain has its parent, the first
\* identifier of the chain, in the tree, and the rest of the chain is the
\* parent's chain (nothing, when the parent has none: it is the root)
ChainsConsistent ==
    \A x \in DOMAIN nodes :
        x \in DOMAIN parents
        => /\ Len(parents[x]) >= 1
           /\ parents[x][1] \in DOMAIN nodes
           /\ Tail(parents[x]) = getAncestors(parents[x][1])[1]

\* C22: after every call of a sequence of Add and Delete calls with unique
\* identifiers the ancestor chains are consistent, and a Delete leaves the
\* chain of every node that is still in the tree as it was.
C22_ChainsStayConsistent ==
    [][/\ ChainsConsistent'
       /\ call'.op = "Delete"
            => \A k \in DOMAIN nodes : k \in DOMAIN nodes' => getAncestors(k)' = getAncestors(k)]_vars

\* C24: right after a successful Add of an identifier that was not in the
\* tree, Descendants of the new node returns (empty, true), whatever record the
\* pool handed out for it; and every node Descendants returns, for any node of
\* the tree, is a node that Find reports as present.
C24_NewNodeHasNoChildren ==
    /\ (call.op = "Add" /\ call.err = "nil" /\ ~dupAdded)
         => Descendants(call.id) = [list |-> << >>, ok |-> TRUE, err |-> "nil"]
    /\ \A p \in DOMAIN nodes :
         \A i \in 1..Len(Descendants(p).list) : Find(Descendants(p).list[i].id).ok

\* C26: whenever no call is in progress, and no identifier was ever used
\* twice, Size() is not negative and is the number of entries of the node
\* index; the calls may have run one after the other or at the same time, two
\* goroutines deleting the same node included.
C26_SizeIsTheIndexAtRest ==
    (AllIdle /\ ~dupAdded)
    => /\ Size >= 0
       /\ Size = Cardinality(DOMAIN nodes)


\* C27: an Add of a new child b under a parent P and a Delete of another
\* child a of P, called from two goroutines, the Delete while the Add was
\* running: once both have returned nil, b is in the node index and in the
\* child collection of P.
C27_ConcurrentAddIsNotLost ==
    \A t \in DOMAIN thr, u \in DOMAIN thr :
        (/\ thr[t].op = "Add" /\ thr[t].pc = "idle" /\ thr[t].err = "nil"
         /\ thr[u].op = "Delete" /\ thr[u].pc = "idle" /\ thr[u].err = "nil"
         /\ thr[u].raced
         /\ thr[t].parent # NoParent
         /\ thr[u].chain # << >>
         /\ thr[u].chain[1] = thr[t].parent
         /\ thr[u].parentNode = thr[t].parentNode
         /\ thr[u].node.id # thr[t].node.id
         /\ ~dupAdded)
        => /\ thr[t].node.id \in DOMAIN nodes
           /\ thr[t].childNode \in ChildrenOf(thr[t].parentNode)


\* C29: an Ancestors call that found a chain for its node returns ok = true
\* and nothing but values of nodes whose identifiers are on that chain,
\* whatever Delete and Add calls of other goroutines run meanwhile.
C29_AncestorsAreOnTheChain ==
    \A t \in DOMAIN thr :
        (thr[t].op = "Ancestors" /\ thr[t].pc = "idle" /\ thr[t].err = "nil")
        => \A i \in 1..Len(thr[t].ancestors) :
              \E j \in 1..Len(thr[t].chain) : thr[t].ancestors[i].id = thr[t].chain[j]


\* C21: every operation runs to completion: in particular, in every state
\* that calls made one after the other can reach, a Descendants call on any
\* node of the tree returns (its walk over the child collections ends).
C21_EveryCallReturns ==
    \A p \in DOMAIN nodes : Descendants(p).err # "stack overflow"


\* the order in which a running Add has made its effects visible: the node
\* index first, then the parent's child collection, then the chain, and the
\* counter with the return
AddPublishesInOrder ==
    \A t \in Running :
        thr[t].op = "Add" =>
        /\ thr[t].pc \in {"get", "setID", "setValue", "store"}
             => thr[t].node.id \notin DOMAIN nodes
        /\ thr[t].pc \in {"append", "setRoot", "loadChain", "storeChain", "size"}
             => thr[t].node.id \in DOMAIN nodes
        /\ thr[t].pc \in {"loadChain", "storeChain", "size"} /\ thr[t].parentNode # NULL
             => thr[t].childNode \in ChildrenOf(thr[t].parentNode)
        /\ thr[t].pc \in {"get", "setID", "setValue", "store", "append", "loadChain",
                          "storeChain"}
             => thr[t].node.id \notin DOMAIN parents
        /\ thr[t].pc = "size" /\ thr[t].parentNode # NULL
             => thr[t].node.id \in DOMAIN parents

\* C28: in every intermediate state of an Add that runs with no Delete or
\* Reset beside it, every node that is in the child collection of a node of
\* the tree, and every node that has a chain, is already in the node index.
C28_PublishedNodesAreIndexed ==
    Running # {}
    => /\ \A p \in DOMAIN nodes :
            \A c \in ChildrenOf(nodes[p]) : recs[c].ID \in DOMAIN nodes
       /\ \A k \in DOMAIN parents : k \in DOMAIN nodes


\* C31: read-your-writes per key, for calls made one after the other: a
\* Store(k, v) makes Load(k) return (v, true) and a Delete(k) makes it return
\* (nil, false), neither changes what Load returns for another key; a Reset
\* makes Load return (nil, false) for every key; Load and Range change nothing
\* of it, and Load returns what the last of these calls left for its key.
C31_ReadYourWrites ==
    [][/\ call'.op = "Store"
           => /\ ShardedLoad(shards', call'.id) = <<call'.arg, TRUE>>
              /\ \A j \in Keys \ {call'.id} :
                    ShardedLoad(shards', j) = ShardedLoad(shards, j)
       /\ call'.op = "MapDelete"
           => /\ ShardedLoad(shards', call'.id) = <<NULL, FALSE>>
              /\ \A j \in Keys \ {call'.id} :
                    ShardedLoad(shards', j) = ShardedLoad(shards, j)
       /\ call'.op = "MapReset"
           => \A j \in Keys : ShardedLoad(shards', j) = <<NULL, FALSE>>
       /\ call'.op \in {"Load", "Range"}
           => \A j \in Keys : ShardedLoad(shards', j) = ShardedLoad(shards, j)
       /\ call'.op = "Load"
           => <<call'.arg, call'.ok>> = ShardedLoad(shards, call'.id)]_vars

\* a Load has returned the second value stored for a key whose shard holds
\* another key with another value, while a third key is in no shard
C31_Witness ==
    /\ call.op = "Load" /\ call.ok /\ call.arg = 2
    /\ \E j \in Keys \ {call.id} :
          /\ getShard(shards, j) = getShard(shards, call.id)
          /\ ShardedLoad(shards, j) = <<1, TRUE>>
    /\ \E j \in Keys : ~ShardedLoad(shards, j)[2]

\* the goroutines between Lock and Unlock of shard i, and those between RLock
\* and RUnlock of it
WritersIn(i) ==
    {t \in Running : thr[t].i = i /\ thr[t].pc \in {"mapWrite", "mapDelete", "mapUnlock",
                                                    "resetMake", "resetUnlock"}}
ReadersIn(i) ==
    {t \in Running : thr[t].i = i /\ thr[t].pc \in {"mapRead", "mapRUnlock", "rangeVisit"}}

\* C32: accesses to one shard never race.  While a goroutine is inside Store,
\* Delete or Reset on a shard it holds the shard's lock exclusively: no other
\* goroutine is inside a write or a read of that shard.  The goroutines inside
\* Load or Range hold the shared lock only, and each goroutine holds the lock
\* of the shard it is at and no other.
C32_ShardAccessesNeverRace ==
    \A i \in 1..Len(shards) :
        /\ Cardinality(WritersIn(i)) <= 1
        /\ WritersIn(i) # {} => ReadersIn(i) = {}
        /\ shards[i].writer = (WritersIn(i) # {})
        /\ shards[i].readers = Cardinality(ReadersIn(i))
        /\ \A t \in WritersIn(i) \cup ReadersIn(i) : thr[t].held = {i}
\* two goroutines write at the same time, each in a shard of its own, while
\* the entries are in the map
C32_Witness ==
    \E t, u \in Running :
        /\ thr[t].pc = "mapWrite" /\ thr[u].pc = "mapUnlock"
        /\ thr[t].i # thr[u].i
        /\ thr[u].op = "MapDelete"
        /\ shards[thr[t].i].writer /\ shards[thr[u].i].writer
        /\ DOMAIN shards[thr[t].i].m # {}

\* the calls of the visitor in list are one for every entry of the map, with
\* the entry's value
VisitsEveryEntryOnce(list) ==
    /\ Len(list) = Cardinality(EntriesOf(shards))
    /\ \A e \in EntriesOf(shards) :
          \E a \in 1..Len(list) :
             /\ list[a].key = e[2]
             /\ list[a].value = shards[e[1]].m[e[2]]
\* no key is in two of the calls of the visitor in list
VisitsNoEntryTwice(list) ==
    \A a, b \in 1..Len(list) : list[a].key = list[b].key => a = b
\* no goroutine has been inside Store, Delete or Reset
NoMutationRan == \A t \in DOMAIN thr : thr[t].op \in {"Load", "Range"}

\* C33: a Range that returns with no Store, Delete or Reset running beside it
\* has called the visitor exactly once for every entry of the map, whatever
\* the visitor returned; with Store, Delete and Reset running beside it, it
\* has still called the visitor for no entry twice; and inside Range a
\* goroutine holds the lock of one shard at most.
C33_RangeVisitsEachEntryOnce ==
    /\ \A t \in DOMAIN thr :
          /\ thr[t].op = "Range" => VisitsNoEntryTwice(thr[t].visited)
          /\ thr[t].op = "Range" => Cardinality(thr[t].held) <= 1
          /\ (thr[t].op = "Range" /\ thr[t].pc = "idle" /\ NoMutationRan)
                => VisitsEveryEntryOnce(thr[t].visited)
    /\ call.op = "Range" => VisitsNoEntryTwice(call.list)
    /\ (call.op = "Range" /\ NoMutationRan) => VisitsEveryEntryOnce(call.list)
\* a Range has returned after visiting the entries of two shards, the visitor
\* returned false at the first of them, and beside it a Store has put one
\* more entry into a shard Range had left
C33_Witness ==
    /\ call.op = "Range"
    /\ Len(call.list) >= 2
    /\ ~call.list[1].ret
    /\ \E a, b \in 1..Len(call.list) :
          getShard(shards, call.list[a].key) # getShard(shards, call.list[b].key)
    /\ \E t \in DOMAIN thr :
          /\ thr[t].op = "Store" /\ thr[t].pc = "idle"
          /\ \A a \in 1..Len(call.list) : call.list[a].key # thr[t].key
====
